---- MODULE Spec2Model ----
(***************************************************************************)
(* Model of the health bot: the WhatsApp gateway (src/whatsapp_webhook.py) *)
(* and the Rasa custom actions (src/actions/actions.py).                   *)
(*                                                                         *)
(* Strings are sequences.  Language codes and classifier answers are       *)
(* sequences of characters, so that strip() and lower() are computed.      *)
(* Outbound texts are sequences of parts <<kind, tag>>, so that string     *)
(* concatenation is \o and the order of banner, body and disclaimer is     *)
(* visible.  Sender identifiers are sequences of tokens, "whatsapp:" being *)
(* one token.                                                              *)
(***************************************************************************)
EXTENDS Naturals, Sequences, FiniteSets

\* ---------------------------------------------------------------- bounds
\* Longest response list the dialogue engine returns.
MaxResponses == 3

\* ---------------------------------------------------------------- strings
en == <<"e", "n">>
hi == <<"h", "i">>
te == <<"t", "e">>

IsSpace(c) == c \in {" ", "\n", "\t"}

LowerChar(c) ==
    CASE c = "E" -> "e"
      [] c = "N" -> "n"
      [] c = "H" -> "h"
      [] c = "I" -> "i"
      [] c = "T" -> "t"
      [] c = "F" -> "f"
      [] c = "R" -> "r"
      [] c = "D" -> "d"
      [] OTHER -> c

\* str.lower()
Lower(s) == [i \in 1..Len(s) |-> LowerChar(s[i])]

RECURSIVE LStrip(_)
LStrip(s) == IF s # <<>> /\ IsSpace(s[1]) THEN LStrip(Tail(s)) ELSE s

RECURSIVE RStrip(_)
RStrip(s) ==
    IF s # <<>> /\ IsSpace(s[Len(s)]) THEN RStrip(SubSeq(s, 1, Len(s) - 1)) ELSE s

\* str.strip()
Strip(s) == RStrip(LStrip(s))

\* dict.get(key, default)
Get(d, k, default) == IF k \in DOMAIN d THEN d[k] ELSE default

\* str.replace("whatsapp:", "") on a tokenised sender
RemoveTag(s) == SelectSeq(s, LAMBDA t : t # "whatsapp:")

\* str.startswith("whatsapp:")
StartsWithTag(s) == s # <<>> /\ s[1] = "whatsapp:"

\* ------------------------------------------------- gateway: static values
\* The text of both fallback entries of send_message_to_rasa.
FallbackText == << <<"fallback", en>> >>

FallbackResponses ==
    [kind |-> "list",
     items |-> << [kind |-> "obj", hasText |-> TRUE, text |-> FallbackText] >>]

\* str(MessagingResponse()) with mimetype text/xml; Flask's default status.
EmptyTwiML == [status |-> 200, body |-> "<Response />", mimetype |-> "text/xml"]

NoResponse == [status |-> 0, body |-> "", mimetype |-> ""]

NoJson == [kind |-> "none", items |-> <<>>]

\* A response the dialogue engine adds by itself (a domain utterance).
EngineText == << <<"engine", <<"u">>>> >>

\* --------------------------------------------- actions.py: static values
valid_langs == {en, hi, te}

lang_map == [l \in valid_langs |->
    IF l = en THEN "English" ELSE IF l = hi THEN "Hindi" ELSE "Telugu"]

disclaimers == [l \in valid_langs |-> << <<"disclaimer", l>> >>]

image_confirmations == [l \in valid_langs |-> << <<"confirmation", l>> >>]

error_messages == [l \in valid_langs |-> << <<"error", l>> >>]

\* The "\n\n" between the confirmation banner and the rest.
Sep == << <<"sep", <<>>>> >>

NoImage == [present |-> FALSE, url |-> ""]

NoAnswer == [called |-> FALSE, ok |-> FALSE, text |-> <<>>]

\* ------------------------------------------------ actions.py: functions
\* detect_language without the lowercasing.
detect_language_NoLower(r) ==
    IF r.ok
    THEN LET answer == Strip(r.text)
         IN  IF answer \in valid_langs THEN answer ELSE en
    ELSE en

\* detect_language, given what model.generate_content(...).text produced:
\* r.ok is FALSE when the call or the access to .text raised.
detect_language(r) ==
    IF r.ok
    THEN LET answer == Lower(Strip(r.text))
         IN  IF answer \in valid_langs THEN answer ELSE en
    ELSE en

get_language_name(lang_code) == Get(lang_map, lang_code, "English")

\* process_image_from_url: fetched is FALSE when the download, the decoding or
\* the conversion raised.
process_image_from_url(image_url, fetched) ==
    IF fetched /\ image_url # "" THEN [present |-> TRUE, url |-> image_url]
    ELSE NoImage

RECURSIVE FirstImageUrl(_)
\* The url of the first attachment of type image with a non-empty url, or "".
FirstImageUrl(attachments) ==
    IF attachments = <<>> THEN ""
    ELSE IF Head(attachments).type = "image" /\ Head(attachments).url # ""
         THEN Head(attachments).url
         ELSE FirstImageUrl(Tail(attachments))

extract_image_from_message(msg, fetched) ==
    IF msg.hasAttachments /\ FirstImageUrl(msg.attachments) # ""
    THEN process_image_from_url(FirstImageUrl(msg.attachments), fetched)
    ELSE IF msg.hasImageUrl
         THEN process_image_from_url(msg.image_url, fetched)
         ELSE NoImage

\* The branch of run that chooses the prompt template.
SelectTemplate(img, text) ==
    IF img.present /\ text # <<>> THEN "text+image"
    ELSE IF img.present /\ text = <<>> THEN "image-only"
    ELSE "text-only"

TextPart(template, name, lang, text) ==
    [part |-> "prompt", url |-> "", template |-> template, lang_name |-> name,
     lang |-> lang, question |-> IF template = "image-only" THEN <<>> ELSE text]

ImagePart(img) ==
    [part |-> "image", url |-> img.url, template |-> "", lang_name |-> "",
     lang |-> <<>>, question |-> <<>>]

\* content_parts as run builds it: the image first when there is one, then
\* the prompt.
BuildContentParts(img, text, lang, name) ==
    (IF img.present THEN <<ImagePart(img)>> ELSE <<>>)
    \o <<TextPart(SelectTemplate(img, text), name, lang, text)>>

\* The banner added after the disclaimer instead of before the body.
AssembleResponse_BannerLast(lang, response_text, img) ==
    LET disclaimer == Get(disclaimers, lang, disclaimers[en])
        bot_response == response_text \o disclaimer
    IN  IF img.present
        THEN bot_response \o Sep
             \o Get(image_confirmations, lang, image_confirmations[en])
        ELSE bot_response

\* bot_response of run after a successful generation.
AssembleResponse(lang, response_text, img) ==
    LET disclaimer == Get(disclaimers, lang, disclaimers[en])
        bot_response == response_text \o disclaimer
    IN  IF img.present
        THEN Get(image_confirmations, lang, image_confirmations[en])
             \o Sep \o bot_response
        ELSE bot_response

\* error_msg of run's exception handler.
ErrorMessage(lang) == Get(error_messages, lang, error_messages[en])

\* --------------------------------------------- whatsapp_webhook.py: functions
\* send_message_to_rasa without the status test.
send_message_to_rasa_NoStatusTest(o) ==
    IF o.raised THEN FallbackResponses ELSE o.json

\* send_message_to_rasa, given what the POST produced: o.raised when the
\* session, the POST or resp.json() raised.
send_message_to_rasa(o) ==
    IF o.raised THEN FallbackResponses
    ELSE IF o.status = 200 THEN o.json
    ELSE FallbackResponses

\* The recipient send_whatsapp_message hands to the provider.
Recipient(to) == IF StartsWithTag(to) THEN to ELSE <<"whatsapp:">> \o to

\* What the body of the for loop does with one element of responses:
\* "send", "skip", or "raise" (a TypeError, caught by the handler's except).
EntryEffect(response) ==
    CASE response.kind = "obj" -> IF response.hasText THEN "send" ELSE "skip"
      [] response.kind = "str" -> IF response.hasText THEN "raise" ELSE "skip"
      [] OTHER -> "raise"

\* ---------------------------------------------------------------- inputs
Senders == { <<"whatsapp:", "+911">>, <<"+912">> }

Bodies == { <<"fever">>, <<"bukhar">> }

\* request.form of a POST to /whatsapp
Forms ==
    { [hasFrom |-> TRUE, From |-> s, hasBody |-> TRUE, Body |-> b] :
        s \in Senders \cup {<<>>}, b \in Bodies \cup {<<>>} }
    \cup { [hasFrom |-> FALSE, From |-> <<>>, hasBody |-> TRUE, Body |-> <<"fever">>],
           [hasFrom |-> TRUE, From |-> <<"+912">>, hasBody |-> FALSE, Body |-> <<>>],
           [hasFrom |-> FALSE, From |-> <<>>, hasBody |-> FALSE, Body |-> <<>>] }

\* What the classifier may answer.
Padded(code) == { pre \o code \o post : pre \in {<<>>, <<" ">>}, post \in {<<>>, <<"\n">>} }

RawAnswers ==
    UNION { Padded(code) : code \in
        { en, hi, te, <<"E", "N">>, <<"H", "i">>, <<"T", "E">>, <<"f", "r">>,
          <<"h", " ", "i">>, <<"h", "i", "n", "d", "i">>, <<>> } }

ClassifierOutcomes ==
    { [called |-> TRUE, ok |-> TRUE, text |-> a] : a \in RawAnswers }
    \cup { [called |-> TRUE, ok |-> FALSE, text |-> <<>>] }

\* What the generative model may answer to the health prompt.
ModelOutputs == { << <<"model", <<"1">>>> >>, << <<"model", <<"2">>>> >> }

Att(type, url) == [type |-> type, url |-> url]

AttachmentLists ==
    { <<>>, <<Att("image", "u1")>>, <<Att("file", "u0"), Att("image", "u1")>>,
      <<Att("image", "")>>, <<Att("image", ""), Att("image", "u2")>> }

\* tracker.latest_message as other channels of the dialogue engine deliver it.
DirectMessages ==
    { [text |-> t, hasAttachments |-> TRUE, attachments |-> a,
       hasImageUrl |-> m # "none", image_url |-> IF m = "none" THEN "" ELSE m] :
        t \in Bodies \cup {<<>>}, a \in AttachmentLists, m \in {"none", "u3"} }
    \cup { [text |-> t, hasAttachments |-> FALSE, attachments |-> <<>>,
            hasImageUrl |-> FALSE, image_url |-> ""] : t \in Bodies \cup {<<>>} }

\* tracker.latest_message for the payload {sender, message} of the gateway.
GatewayMessage(message) ==
    [text |-> message, hasAttachments |-> FALSE, attachments |-> <<>>,
     hasImageUrl |-> FALSE, image_url |-> ""]

NoMessage == GatewayMessage(<<>>)

Range(f) == { f[i] : i \in DOMAIN f }

TextEntry(t) == [kind |-> "obj", hasText |-> TRUE, text |-> t]

\* Elements a response list may hold, given what the action dispatched.
Entries(dispatched) ==
    { TextEntry(t) : t \in Range(dispatched) \cup {EngineText} }
    \cup { [kind |-> "obj", hasText |-> FALSE, text |-> <<>>],
           [kind |-> "num", hasText |-> FALSE, text |-> <<>>] }

\* JSON bodies of a 200 answer: lists, null, and objects (iterated by key).
JsonValues(dispatched) ==
    { [kind |-> "list", items |-> l] :
        l \in UNION { [1..n -> Entries(dispatched)] : n \in 0..MaxResponses } }
    \cup { [kind |-> "null", items |-> <<>>],
           [kind |-> "object",
            items |-> << [kind |-> "str", hasText |-> FALSE, text |-> <<>>],
                         [kind |-> "str", hasText |-> TRUE, text |-> <<>>] >>] }

\* Outcomes of the POST to the dialogue engine.
RasaOutcomes(dispatched) ==
    { [raised |-> FALSE, status |-> 200, json |-> j] : j \in JsonValues(dispatched) }
    \cup { [raised |-> FALSE, status |-> 500, json |-> NoJson],
           [raised |-> TRUE, status |-> 0, json |-> NoJson],
           [raised |-> TRUE, status |-> 200, json |-> NoJson] }

\* ---------------------------------------------------------------- state
VARIABLES
    gpc,            \* whatsapp_webhook: idle, received, forwarded, sending, replied, failed
    sender,         \* request.form.get('From', '')
    message_body,   \* request.form.get('Body', '')
    rasa_posts,     \* payloads posted to RASA_SERVER_URL by this request
    rasa_result,    \* how the POST ended: none, ok, status, exception
    responses,      \* what send_message_to_rasa returned
    idx,            \* position of the for loop in responses
    sends,          \* twilio_client.messages.create attempts of this request
    http_response,  \* what the handler returned to the webhook caller
    origin,         \* who started the response cycle: none, gateway, direct
    apc,            \* run: idle, start, extracted, classified, detected, composed, done
    user_message,   \* tracker.latest_message.get('text', '')
    latest_message, \* tracker.latest_message
    image,          \* what extract_image_from_message returned
    response,       \* detect_language: the classifier's answer, until run goes on
    classify_calls, \* classification requests of this cycle
    detected_lang,  \* <<>> until set
    gen_calls,      \* content_parts of the generation requests of this cycle
    generation,     \* none, ok, failed
    model_text,     \* response.text of the generation
    dispatched,     \* texts given to dispatcher.utter_message
    action_raised   \* run ended with an exception

gvars == <<gpc, sender, message_body, rasa_posts, rasa_result, responses, idx, sends,
           http_response>>

avars == <<apc, user_message, latest_message, image, response, classify_calls,
           detected_lang, gen_calls, generation, model_text, dispatched, action_raised>>

vars == <<gvars, origin, avars>>

Init ==
    /\ gpc = "idle"
    /\ sender = <<>>
    /\ message_body = <<>>
    /\ rasa_posts = <<>>
    /\ rasa_result = "none"
    /\ responses = NoJson
    /\ idx = 0
    /\ sends = <<>>
    /\ http_response = NoResponse
    /\ origin = "none"
    /\ apc = "idle"
    /\ user_message = <<>>
    /\ latest_message = NoMessage
    /\ image = NoImage
    /\ response = NoAnswer
    /\ classify_calls = 0
    /\ detected_lang = <<>>
    /\ gen_calls = <<>>
    /\ generation = "none"
    /\ model_text = <<>>
    /\ dispatched = <<>>
    /\ action_raised = FALSE

\* ------------------------------------------------- whatsapp_webhook: steps
\* The condition testing the sender alone.
HasFields_SenderOnly(from, body) == from # <<>>

\* The condition of the handler's if.
HasFields(from, body) == from # <<>> /\ body # <<>>

\* The Response of the normal path.
WebhookReturn == EmptyTwiML

\* The except path answering with a server error instead.
ExceptReturn_Error == [status |-> 500, body |-> "", mimetype |-> "text/html"]

\* The Response of the except path.
ExceptReturn == EmptyTwiML

\* A POST arrives; sender and message_body are read from the form.
Receive ==
    /\ gpc = "idle" /\ origin = "none"
    /\ \E f \in Forms :
        /\ sender' = IF f.hasFrom THEN f.From ELSE <<>>
        /\ message_body' = IF f.hasBody THEN f.Body ELSE <<>>
    /\ gpc' = "received"
    /\ origin' = "gateway"
    /\ UNCHANGED <<rasa_posts, rasa_result, responses, idx, sends, http_response, avars>>

\* Both fields present: the payload is posted to the dialogue engine.
Forward ==
    /\ gpc = "received"
    /\ HasFields(sender, message_body)
    /\ rasa_posts' = Append(rasa_posts,
                            [sender |-> RemoveTag(sender), message |-> message_body])
    /\ gpc' = "forwarded"
    /\ UNCHANGED <<sender, message_body, rasa_result, responses, idx, sends,
                   http_response, origin, avars>>

\* A field is missing or empty: the handler returns at once.
SkipForward ==
    /\ gpc = "received"
    /\ ~HasFields(sender, message_body)
    /\ http_response' = WebhookReturn
    /\ gpc' = "replied"
    /\ UNCHANGED <<sender, message_body, rasa_posts, rasa_result, responses, idx, sends,
                   origin, avars>>

\* The POST ends; run_until_complete returns what send_message_to_rasa returns.
RasaReturn ==
    /\ gpc = "forwarded"
    /\ apc \in {"idle", "done"}
    /\ \E o \in RasaOutcomes(dispatched) :
        /\ responses' = send_message_to_rasa(o)
        /\ rasa_result' = IF o.raised THEN "exception"
                          ELSE IF o.status = 200 THEN "ok" ELSE "status"
    /\ idx' = 1
    /\ gpc' = "sending"
    /\ UNCHANGED <<sender, message_body, rasa_posts, sends, http_response, origin, avars>>

LoopEntry == responses.items[idx]

InLoop == gpc = "sending" /\ responses.kind # "null" /\ idx <= Len(responses.items)

\* A failed send attempted again: the loop stays on the element.
SendEntry_Retry ==
    /\ InLoop
    /\ EntryEffect(LoopEntry) = "send"
    /\ Len(sends) <= MaxResponses
    /\ \E ok \in BOOLEAN :
        /\ sends' = Append(sends,
                           [to |-> Recipient(sender), body |-> LoopEntry.text, ok |-> ok])
        /\ idx' = IF ok THEN idx + 1 ELSE idx
    /\ UNCHANGED <<gpc, sender, message_body, rasa_posts, rasa_result, responses,
                   http_response, origin, avars>>

\* An element with a text: one send attempt, whose failure is swallowed.
SendEntry ==
    /\ InLoop
    /\ EntryEffect(LoopEntry) = "send"
    /\ \E ok \in BOOLEAN :
        sends' = Append(sends,
                        [to |-> Recipient(sender), body |-> LoopEntry.text, ok |-> ok])
    /\ idx' = idx + 1
    /\ UNCHANGED <<gpc, sender, message_body, rasa_posts, rasa_result, responses,
                   http_response, origin, avars>>

\* An element without a text is passed over.
SkipEntry ==
    /\ InLoop
    /\ EntryEffect(LoopEntry) = "skip"
    /\ idx' = idx + 1
    /\ UNCHANGED <<gpc, sender, message_body, rasa_posts, rasa_result, responses, sends,
                   http_response, origin, avars>>

\* The loop raises (responses is null, or an element is no object): the
\* handler's except returns.
LoopRaise ==
    /\ gpc = "sending"
    /\ \/ responses.kind = "null"
       \/ InLoop /\ EntryEffect(LoopEntry) = "raise"
    /\ http_response' = ExceptReturn
    /\ gpc' = "failed"
    /\ UNCHANGED <<sender, message_body, rasa_posts, rasa_result, responses, idx, sends,
                   origin, avars>>

\* The loop is over: the handler returns.
LoopEnd ==
    /\ gpc = "sending"
    /\ responses.kind # "null"
    /\ idx > Len(responses.items)
    /\ http_response' = WebhookReturn
    /\ gpc' = "replied"
    /\ UNCHANGED <<sender, message_body, rasa_posts, rasa_result, responses, idx, sends,
                   origin, avars>>

\* ------------------------------------------------------------ run: steps
\* run calling detect_language whatever the text.
NeedsDetection_Always(text) == TRUE

\* The condition under which run calls detect_language.
NeedsDetection(text) == text # <<>>

\* The except adding the disclaimer to the error text.
OnGenerationError_WithDisclaimer(lang, sofar) ==
    [dispatched |-> Append(sofar, ErrorMessage(lang) \o disclaimers[lang]),
     raised |-> FALSE]

\* What run's except does: the error text is dispatched, nothing is raised.
OnGenerationError(lang, sofar) ==
    [dispatched |-> Append(sofar, ErrorMessage(lang)), raised |-> FALSE]

StartRun(msg) ==
    /\ apc = "idle"
    /\ latest_message' = msg
    /\ user_message' = msg.text
    /\ apc' = "start"
    /\ UNCHANGED <<image, response, classify_calls, detected_lang, gen_calls,
                   generation, model_text, dispatched, action_raised>>

\* The dialogue engine runs the action for the message the gateway posted.
EngineRunsAction ==
    /\ gpc = "forwarded"
    /\ StartRun(GatewayMessage(rasa_posts[Len(rasa_posts)].message))
    /\ UNCHANGED <<gvars, origin>>

\* The dialogue engine runs the action for a message of another channel.
DirectMessage ==
    /\ gpc = "idle" /\ origin = "none"
    /\ \E m \in DirectMessages : StartRun(m)
    /\ origin' = "direct"
    /\ UNCHANGED gvars

ExtractImage ==
    /\ apc = "start"
    /\ \E fetched \in BOOLEAN :
        image' = extract_image_from_message(latest_message, fetched)
    /\ apc' = "extracted"
    /\ UNCHANGED <<gvars, origin, user_message, latest_message, response, classify_calls,
                   detected_lang, gen_calls, generation, model_text, dispatched,
                   action_raised>>

\* detect_language: the one classification request.
Classify ==
    /\ apc = "extracted"
    /\ NeedsDetection(user_message)
    /\ \E r \in ClassifierOutcomes : response' = r
    /\ classify_calls' = classify_calls + 1
    /\ apc' = "classified"
    /\ UNCHANGED <<gvars, origin, user_message, latest_message, image, detected_lang,
                   gen_calls, generation, model_text, dispatched, action_raised>>

\* detect_language returns.
DetectReturn ==
    /\ apc = "classified"
    /\ detected_lang' = detect_language(response)
    /\ apc' = "detected"
    /\ UNCHANGED <<gvars, origin, user_message, latest_message, image, response,
                   classify_calls, gen_calls, generation, model_text, dispatched,
                   action_raised>>

\* No text: run takes 'en' without calling detect_language.
DefaultLanguage ==
    /\ apc = "extracted"
    /\ ~NeedsDetection(user_message)
    /\ detected_lang' = en
    /\ apc' = "detected"
    /\ UNCHANGED <<gvars, origin, user_message, latest_message, image, response,
                   classify_calls, gen_calls, generation, model_text, dispatched,
                   action_raised>>

\* The generation request is sent with the content parts run built, and answers.
GenerateOk ==
    /\ apc = "detected"
    /\ gen_calls' = Append(gen_calls,
          BuildContentParts(image, user_message, detected_lang,
                            get_language_name(detected_lang)))
    /\ \E out \in ModelOutputs :
        /\ model_text' = out
        /\ dispatched' = Append(dispatched, AssembleResponse(detected_lang, out, image))
    /\ generation' = "ok"
    /\ response' = NoAnswer
    /\ apc' = "done"
    /\ UNCHANGED <<gvars, origin, user_message, latest_message, image,
                   classify_calls, detected_lang, action_raised>>

\* The generation request is sent and raises (or response.text does).
GenerateFail ==
    /\ apc = "detected"
    /\ gen_calls' = Append(gen_calls,
          BuildContentParts(image, user_message, detected_lang,
                            get_language_name(detected_lang)))
    /\ dispatched' = OnGenerationError(detected_lang, dispatched).dispatched
    /\ action_raised' = OnGenerationError(detected_lang, dispatched).raised
    /\ generation' = "failed"
    /\ response' = NoAnswer
    /\ apc' = "done"
    /\ UNCHANGED <<gvars, origin, user_message, latest_message, image,
                   classify_calls, detected_lang, model_text>>

\* The response cycle is over; nothing is kept for the next one.
EndCycle ==
    /\ \/ gpc \in {"replied", "failed"}
       \/ origin = "direct" /\ apc = "done"
    /\ gpc' = "idle"
    /\ sender' = <<>>
    /\ message_body' = <<>>
    /\ rasa_posts' = <<>>
    /\ rasa_result' = "none"
    /\ responses' = NoJson
    /\ idx' = 0
    /\ sends' = <<>>
    /\ http_response' = NoResponse
    /\ origin' = "none"
    /\ apc' = "idle"
    /\ user_message' = <<>>
    /\ latest_message' = NoMessage
    /\ image' = NoImage
    /\ response' = NoAnswer
    /\ classify_calls' = 0
    /\ detected_lang' = <<>>
    /\ gen_calls' = <<>>
    /\ generation' = "none"
    /\ model_text' = <<>>
    /\ dispatched' = <<>>
    /\ action_raised' = FALSE

Next ==
    \/ Receive
    \/ Forward
    \/ SkipForward
    \/ EngineRunsAction
    \/ RasaReturn
    \/ SendEntry
    \/ SkipEntry
    \/ LoopRaise
    \/ LoopEnd
    \/ DirectMessage
    \/ ExtractImage
    \/ Classify
    \/ DetectReturn
    \/ DefaultLanguage
    \/ GenerateOk
    \/ GenerateFail
    \/ EndCycle

Spec == Init /\ [][Next]_vars

\* ---------------------------------------------------------------- claims
Ended == gpc \in {"replied", "failed"}

IsEmptyAck(r) == r.status = 200 /\ r.body = "<Response />" /\ r.mimetype = "text/xml"

\* A step of the request in flight, or of the dialogue engine it waits for.
RequestStep ==
    \/ Forward \/ SkipForward \/ EngineRunsAction \/ RasaReturn
    \/ SendEntry \/ SkipEntry \/ LoopRaise \/ LoopEnd
    \/ ExtractImage \/ Classify \/ DetectReturn \/ DefaultLanguage
    \/ GenerateOk \/ GenerateFail

\* C1: a request that has ended has answered HTTP 200 with the empty TwiML
\* body and content type text/xml, whether it ended normally or through the
\* handler's except; no answer is given before the end, and a request in
\* flight always has a next step (it cannot get stuck short of its answer).
C1_AlwaysEmptyAck ==
    /\ Ended => IsEmptyAck(http_response)
    /\ ~Ended => http_response = NoResponse
    /\ gpc \in {"received", "forwarded", "sending"} => ENABLED RequestStep

\* C1 witness: the loop raised after a send had been attempted, and the
\* request still answered with the empty acknowledgment.
C1_Witness ==
    /\ gpc = "failed"
    /\ IsEmptyAck(http_response)
    /\ Len(sends) > 0
    /\ rasa_result = "ok"

\* C2: a request whose sender or body is missing or empty posts nothing to the
\* dialogue engine, attempts no send, never runs the action, and ends with the
\* empty acknowledgment.
C2_MissingFieldSkips ==
    (origin = "gateway" /\ (sender = <<>> \/ message_body = <<>>)) =>
        /\ rasa_posts = <<>>
        /\ sends = <<>>
        /\ apc = "idle"
        /\ gpc \in {"received", "replied"}
        /\ gpc = "replied" => IsEmptyAck(http_response)

\* C2 witness: a request with a sender and no body has been answered.
C2_Witness ==
    /\ gpc = "replied"
    /\ sender # <<>>
    /\ message_body = <<>>
    /\ IsEmptyAck(http_response)

SameParty(to, from) == StartsWithTag(to) /\ RemoveTag(to) = RemoveTag(from)

\* C3: when the POST to the dialogue engine ends with a non-200 status or an
\* exception, responses is a list of exactly one entry, whose text is the
\* static fallback text; at most one send is attempted, and when the request
\* has ended exactly one has been, of the fallback text, to the sender.
C3_FallbackOnRasaFailure ==
    rasa_result \in {"status", "exception"} =>
        /\ responses.kind = "list"
        /\ Len(responses.items) = 1
        /\ responses.items[1].kind = "obj"
        /\ responses.items[1].hasText
        /\ responses.items[1].text = << <<"fallback", en>> >>
        /\ Len(sends) <= 1
        /\ \A i \in DOMAIN sends :
            /\ sends[i].body = << <<"fallback", en>> >>
            /\ SameParty(sends[i].to, sender)
        /\ Ended => Len(sends) = 1 /\ gpc = "replied"

\* C3 witness: the engine answered with an error status and the request ended
\* after its one send of the fallback text.
C3_Witness ==
    /\ gpc = "replied"
    /\ rasa_result = "status"
    /\ Len(sends) = 1
    /\ sends[1].body = FallbackText

StaticKinds == {"disclaimer", "error", "confirmation", "fallback"}

\* The language of the cycle: the detected one, English when none was detected.
CycleLang == IF detected_lang \in valid_langs THEN detected_lang ELSE en

InCycleLang(text) ==
    \A j \in DOMAIN text : text[j][1] \in StaticKinds => text[j][2] = CycleLang

\* C4: every static text (disclaimer, error text, confirmation banner,
\* fallback text) of every message dispatched or sent in a response cycle is
\* the one of the language detected for the cycle's inbound message.
C4_OutboundInDetectedLanguage ==
    /\ \A i \in DOMAIN dispatched : InCycleLang(dispatched[i])
    /\ \A i \in DOMAIN sends : InCycleLang(sends[i].body)

UpperChar(c) ==
    CASE c = "e" -> "E" [] c = "n" -> "N" [] c = "h" -> "H"
      [] c = "i" -> "I" [] c = "t" -> "T" [] OTHER -> c

\* text is the two letters of code, in any case, between white space only.
SpellsCode(text, code) ==
    \E i \in 1..Len(text) :
        /\ i + 1 <= Len(text)
        /\ \A k \in 1..Len(text) : (k < i \/ k > i + 1) => IsSpace(text[k])
        /\ text[i] \in {code[1], UpperChar(code[1])}
        /\ text[i + 1] \in {code[2], UpperChar(code[2])}

\* C5: detection yields en, hi or te: the code the classifier's answer spells
\* once trimmed and lowercased, and en when the answer spells none of the
\* three or the classification failed; one classification request was made.
C5_DetectionClosedAndSafe ==
    /\ apc \in {"detected", "done"} => detected_lang \in {en, hi, te}
    /\ classify_calls <= 1
    /\ (apc = "detected" /\ response.called) =>
        /\ classify_calls = 1
        /\ \A code \in {en, hi, te} :
            (response.ok /\ SpellsCode(response.text, code)) => detected_lang = code
        /\ (~response.ok \/ \A code \in {en, hi, te} : ~SpellsCode(response.text, code))
            => detected_lang = en

\* C5 witness: an answer in upper case with white space around was detected
\* as Hindi.
C5_Witness ==
    /\ apc = "detected"
    /\ response.ok
    /\ response.text = <<" ", "H", "i", "\n">>
    /\ detected_lang = hi

\* C6: in a response cycle for a message with empty text no classification
\* request is made, and the language of the cycle is English.
C6_EmptyTextNoClassification ==
    (origin # "none" /\ apc # "idle" /\ user_message = <<>>) =>
        /\ classify_calls = 0
        /\ ~response.called
        /\ apc \in {"detected", "done"} => detected_lang = en

\* C6 witness: a cycle for an image without text has ended.
C6_Witness ==
    /\ apc = "done"
    /\ user_message = <<>>
    /\ image.present
    /\ detected_lang = en

Kind(part) == part[1]

\* C7: after a successful generation exactly one text has been dispatched:
\* without an image the model output followed by one disclaimer; with an image
\* the banner, the separator, the model output, one disclaimer, in this order.
C7_AssemblyOrder ==
    generation = "ok" =>
        /\ Len(dispatched) = 1
        /\ LET t == dispatched[1]
               n == Len(model_text)
           IN  /\ Cardinality({i \in DOMAIN t : Kind(t[i]) = "disclaimer"}) = 1
               /\ Kind(t[Len(t)]) = "disclaimer"
               /\ Cardinality({i \in DOMAIN t : Kind(t[i]) = "confirmation"})
                    = IF image.present THEN 1 ELSE 0
               /\ image.present =>
                    /\ Len(t) = n + 3
                    /\ Kind(t[1]) = "confirmation"
                    /\ SubSeq(t, 3, n + 2) = model_text
               /\ ~image.present =>
                    /\ Len(t) = n + 1
                    /\ SubSeq(t, 1, n) = model_text

\* C7 witness: a text with an image was answered.
C7_Witness ==
    /\ generation = "ok"
    /\ image.present
    /\ user_message # <<>>
    /\ Len(dispatched) = 1

\* C8: after a failed generation exactly one text has been dispatched, the
\* error text of the detected language alone, and run has raised nothing.
C8_GenerationFailure ==
    generation = "failed" =>
        /\ dispatched = << << <<"error", detected_lang>> >> >>
        /\ detected_lang \in {en, hi, te}
        /\ ~action_raised
        /\ apc = "done"

\* C8 witness: the generation failed for a Hindi text with an image.
C8_Witness ==
    /\ generation = "failed"
    /\ detected_lang = hi
    /\ image.present
    /\ Len(dispatched) = 1

\* C9: a generation request is sent only when the message has a text or an
\* image.
C9_NoPromptWithoutInput ==
    gen_calls # <<>> => (user_message # <<>> \/ image.present)

RECURSIVE TextsOf(_)
\* The texts of the objects with a text field, in list order.
TextsOf(items) ==
    IF items = <<>> THEN <<>>
    ELSE (IF Head(items).kind = "obj" /\ Head(items).hasText
          THEN <<Head(items).text>> ELSE <<>>) \o TextsOf(Tail(items))

SentBodies(s) == [i \in DOMAIN s |-> s[i].body]

AllObjects(r) == r.kind = "list" /\ \A i \in DOMAIN r.items : r.items[i].kind = "obj"

\* C10: no send is attempted before the POST to the dialogue engine has ended;
\* afterwards the attempts are, in list order, the texts of the entries with a
\* text the loop has passed, one attempt each whether it succeeded or not, all
\* addressed to the sender; when the response is a list of objects the request
\* ends normally with one attempt per entry with a text.
C10_SequentialSends ==
    /\ rasa_result = "none" => sends = <<>>
    /\ \A i \in DOMAIN sends : SameParty(sends[i].to, sender)
    /\ (rasa_result # "none" /\ responses.kind = "list") =>
        /\ idx \in 1..(Len(responses.items) + 1)
        /\ SentBodies(sends) = TextsOf(SubSeq(responses.items, 1, idx - 1))
    /\ (Ended /\ rasa_result # "none" /\ AllObjects(responses)) =>
        /\ gpc = "replied"
        /\ SentBodies(sends) = TextsOf(responses.items)

\* C10 witness: the first send failed, the second, of another text, was
\* attempted and succeeded, and the request ended.
C10_Witness ==
    /\ gpc = "replied"
    /\ Len(sends) >= 2
    /\ ~sends[1].ok
    /\ sends[2].ok
    /\ sends[1].body # sends[2].body

====
